---- MODULE Spec2Model ----
(***************************************************************************)
(* Model of the COBOL road-map analyzer (src/RoadMap.07.py): the PERFORM   *)
(* scan of analizar_cobol with its SQL block aggregator, the reachability  *)
(* routines filtrar_desde_parrafo_inicio and obtener_parrafos_accesibles,  *)
(* and the tree printer imprimir_arbol_llamadas.                           *)
(*                                                                         *)
(* A Python dict is a sequence of entries [k |-> key, v |-> value] in      *)
(* insertion order; a Python list is a sequence; a Python set is a set.    *)
(* Each entry point has its own specification (SpecFiltrar,                *)
(* SpecAccesibles, SpecArbol, SpecScan) over the same variables, which     *)
(* carry the source's names.                                               *)
(***************************************************************************)
EXTENDS Integers, Sequences, FiniteSets, TLC

VARIABLES
    pc,                 \* position of the running function
    llamadas,           \* dict: paragraph -> list of PERFORM destinations
    parrafo_inicio,     \* start paragraph argument ("" for None / empty)
    nodo,               \* imprimir_arbol_llamadas: the root argument
    selects_por_parrafo,\* dict: paragraph -> list of SQL annotations
    resultado,          \* value returned by the function under analysis
    excepcion,          \* name of the exception that escaped, "" if none
    salida,             \* lines printed to the console
    accesibles,         \* obtener_parrafos_accesibles: visited set
    pendientes,         \* obtener_parrafos_accesibles: pending stack
    pila,               \* imprimir_arbol_llamadas: the recursion stack
    archivo,            \* imprimir_arbol_llamadas: lines written to the file
    analizar_sql,       \* analizar_cobol: SQL analysis flag
    linea,              \* analizar_cobol: the line read by the main loop
    bloque_sql,         \* procesar_bloque_sql: lines accumulated so far
    en_procedure_division,
    esperar_punto_despues_de_proc, \* "unset" until the header is seen
    parrafo_actual,
    bloque_sql_count,
    leidas,             \* number of lines the file iterator has delivered
    modulo              \* external-call analyzer: the source file run, else ""

vars == <<pc, llamadas, parrafo_inicio, nodo, selects_por_parrafo, resultado,
          excepcion, salida, accesibles, pendientes, pila, archivo,
          analizar_sql, linea, bloque_sql, en_procedure_division,
          esperar_punto_despues_de_proc, parrafo_actual, bloque_sql_count,
          leidas, modulo>>

(***************************************************************************)
(* Bounds of the model.                                                    *)
(***************************************************************************)
\* total number of edges of a call graph given to a graph routine
MaxAristas == 3
\* number of lines of a scanned file
MaxLineas == 6
\* number of lines of an EXEC SQL block before the line with END-EXEC
MaxBloque == 2

(***************************************************************************)
(* Python dict and list operations.                                        *)
(***************************************************************************)
DictVacio == <<>>

Claves(d) == {d[i].k : i \in DOMAIN d}

\* k in d
Contiene(d, k) == \E i \in DOMAIN d : d[i].k = k

\* d[k], for k in d
Valor(d, k) == d[CHOOSE i \in DOMAIN d : d[i].k = k].v

\* d.get(k, [])
Get(d, k) == IF Contiene(d, k) THEN Valor(d, k) ELSE <<>>

\* d[k] = v
Asignar(d, k, v) ==
    IF Contiene(d, k)
    THEN [i \in DOMAIN d |-> IF d[i].k = k THEN [k |-> k, v |-> v] ELSE d[i]]
    ELSE Append(d, [k |-> k, v |-> v])

\* d.setdefault(k, []).append(x)
SetdefaultAppend(d, k, x) == Asignar(d, k, Append(Get(d, k), x))

\* every destination named by some list of d
Destinos(d) == UNION {{d[i].v[j] : j \in DOMAIN d[i].v} : i \in DOMAIN d}

\* the nodes of a graph: its keys and the destinations of its lists
NodosDe(d) == Claves(d) \cup Destinos(d)

\* no key occurs twice (what a Python dict guarantees)
ClavesUnicas(d) == \A i, j \in DOMAIN d : d[i].k = d[j].k => i = j

(***************************************************************************)
(* Inputs of the graph routines: every call graph over Nodos with at most  *)
(* MaxAristas edges, in every key order.                                   *)
(***************************************************************************)
Nodos == {"__START__", "PAR-A", "PAR-B"}

ListasHasta(n) == UNION {[1..m -> Nodos] : m \in 0..n}

SecuenciasDeClaves ==
    {s \in UNION {[1..m -> Nodos] : m \in 0..Cardinality(Nodos)} :
        \A i, j \in DOMAIN s : s[i] = s[j] => i = j}

RECURSIVE GrafosDe(_, _)
GrafosDe(ks, n) ==
    IF ks = <<>> THEN {<<>>}
    ELSE UNION {{<<[k |-> Head(ks), v |-> l]>> \o g :
                    g \in GrafosDe(Tail(ks), n - Len(l))} :
                l \in ListasHasta(n)}

Grafos == UNION {GrafosDe(ks, MaxAristas) : ks \in SecuenciasDeClaves}

\* start names offered to the graph routines: the nodes, a name that is no
\* node, and the empty name
Inicios == Nodos \cup {"NOPE", ""}

\* the set of nodes reachable from the nodes of S by zero or more edges
RECURSIVE Cierre(_, _)
Cierre(d, S) ==
    LET T == S \cup UNION {{Get(d, s)[j] : j \in DOMAIN Get(d, s)} : s \in S}
    IN  IF T = S THEN S ELSE Cierre(d, T)

Alcanzables(d, inicio) == Cierre(d, {inicio})

(***************************************************************************)
(* filtrar_desde_parrafo_inicio (lines 193-223).  The value is what the    *)
(* call leaves behind: the returned dict, the exception that escaped, the  *)
(* lines printed, and the caller's dict after the call.  resultado's only  *)
(* list is the very list object llamadas[parrafo_inicio] (line 210 stores  *)
(* the reference), so an append to it is an append to both.                *)
(***************************************************************************)
MensajeNoExiste(p) == [texto |-> "no existe en el archivo", parrafo |-> p]

\* the while loop of lines 215-222 for one origen
RECURSIVE filtrar_while(_, _, _, _)
filtrar_while(ll, res, origen, pend) ==
    IF pend = <<>>
    THEN [excepcion |-> "", llamadas |-> ll, resultado |-> res]
    ELSE LET destino == pend[Len(pend)]
             resto   == SubSeq(pend, 1, Len(pend) - 1)
         IN  IF Contiene(res, destino)
             THEN filtrar_while(ll, res, origen, resto)
             ELSE IF Contiene(ll, destino)
                  THEN IF ~Contiene(res, origen)
                       THEN [excepcion |-> "KeyError", llamadas |-> ll,
                             resultado |-> res]
                       ELSE filtrar_while(
                                Asignar(ll, origen, Append(Valor(ll, origen), destino)),
                                Asignar(res, origen, Append(Valor(res, origen), destino)),
                                origen, resto)
                  ELSE filtrar_while(ll, res, origen, resto \o Get(ll, destino))

\* the for loop of line 213 over the snapshot list(llamadas.items())
RECURSIVE filtrar_for(_, _, _, _)
filtrar_for(items, i, ll, res) ==
    IF i > Len(items)
    THEN [excepcion |-> "", llamadas |-> ll, resultado |-> res]
    ELSE LET r == filtrar_while(ll, res, items[i].k, Valor(ll, items[i].k))
         IN  IF r.excepcion # "" THEN r
             ELSE filtrar_for(items, i + 1, r.llamadas, r.resultado)

\* lines 209-223
filtrar_cuerpo(ll, inicio) ==
    LET r == filtrar_for(ll, 1, ll, <<[k |-> inicio, v |-> Get(ll, inicio)]>>)
    IN  [excepcion |-> r.excepcion,
         resultado |-> IF r.excepcion = "" THEN r.resultado ELSE DictVacio,
         llamadas  |-> r.llamadas,
         salida    |-> <<>>]

\* faulty variant: the guard of lines 205-207 is missing
filtrar_sin_guarda(ll, inicio) == filtrar_cuerpo(ll, inicio)

filtrar_desde_parrafo_inicio(ll, inicio) ==
    IF ~Contiene(ll, inicio)
    THEN [excepcion |-> "", resultado |-> DictVacio, llamadas |-> ll,
          salida |-> <<MensajeNoExiste(inicio)>>]
    ELSE filtrar_cuerpo(ll, inicio)

\* the value of linea before the first line is read
LineaNinguna == [col7 |-> "", palabras |-> <<>>]

(***************************************************************************)
(* Values of the variables a specification does not use.                   *)
(***************************************************************************)
SinScan ==
    /\ analizar_sql = FALSE
    /\ linea = LineaNinguna
    /\ bloque_sql = <<>>
    /\ en_procedure_division = FALSE
    /\ esperar_punto_despues_de_proc = "unset"
    /\ parrafo_actual = "__START__"
    /\ bloque_sql_count = 0
    /\ leidas = 0
    /\ modulo = ""

SinAccesibles == accesibles = {} /\ pendientes = <<>>

SinArbol == nodo = "" /\ pila = <<>> /\ archivo = [abierto |-> FALSE, lineas |-> <<>>]

scanVars == <<analizar_sql, linea, bloque_sql, en_procedure_division,
              esperar_punto_despues_de_proc, parrafo_actual,
              bloque_sql_count, leidas, modulo>>
accVars == <<accesibles, pendientes>>
arbolVars == <<nodo, pila, archivo>>

(***************************************************************************)
(* SpecFiltrar: one call of filtrar_desde_parrafo_inicio on any graph.     *)
(***************************************************************************)
InitFiltrar ==
    /\ pc = "filtrar"
    /\ llamadas \in Grafos
    /\ parrafo_inicio \in Inicios \ {""}
    /\ selects_por_parrafo = DictVacio
    /\ resultado = DictVacio
    /\ excepcion = ""
    /\ salida = <<>>
    /\ SinAccesibles /\ SinArbol /\ SinScan

Filtrar ==
    /\ pc = "filtrar"
    /\ LET r == filtrar_desde_parrafo_inicio(llamadas, parrafo_inicio)
       IN  /\ llamadas' = r.llamadas
           /\ resultado' = r.resultado
           /\ excepcion' = r.excepcion
           /\ salida' = salida \o r.salida
    /\ pc' = "filtrar_fin"
    /\ UNCHANGED <<parrafo_inicio, selects_por_parrafo, accVars, arbolVars, scanVars>>

NextFiltrar == Filtrar

SpecFiltrar == InitFiltrar /\ [][NextFiltrar]_vars

\* C1: when the start name is not a key of the graph, the call returns the
\* empty graph, prints that the paragraph does not exist, raises nothing and
\* leaves the caller's graph as it was.
C1_InicioAusente ==
    [][(pc = "filtrar" /\ ~Contiene(llamadas, parrafo_inicio))
        => /\ pc' = "filtrar_fin"
           /\ resultado' = DictVacio
           /\ excepcion' = ""
           /\ salida' = Append(salida, MensajeNoExiste(parrafo_inicio))
           /\ llamadas' = llamadas]_vars

C1_Witness ==
    /\ pc = "filtrar_fin"
    /\ ~Contiene(llamadas, parrafo_inicio)
    /\ Len(llamadas) >= 2
    /\ Destinos(llamadas) # {}
    /\ resultado = DictVacio

\* C2 as claimed: when the start name is a key, the call returns without an
\* exception a graph that holds the start node and every node reachable
\* from it.
C2_Claim ==
    [][(pc = "filtrar" /\ Contiene(llamadas, parrafo_inicio))
        => /\ excepcion' = ""
           /\ Alcanzables(llamadas, parrafo_inicio) \subseteq NodosDe(resultado')]_vars

\* C11 as claimed: whatever the graph and the start name, and whether the
\* call returns or raises, the caller's graph has after the call the keys
\* and the destination lists it had before it.
C11_Claim ==
    [][pc = "filtrar"
        => /\ Claves(llamadas') = Claves(llamadas)
           /\ \A k \in Claves(llamadas) : Get(llamadas', k) = Get(llamadas, k)]_vars

(***************************************************************************)
(* obtener_parrafos_accesibles (lines 225-246), one loop iteration per     *)
(* step.                                                                   *)
(***************************************************************************)
\* line 237: parrafo_inicio or '__START__'
InicioOSentinela(inicio) == IF inicio = "" THEN "__START__" ELSE inicio

\* faulty variant: a node that is no key of the graph is dropped instead of added
accesibles_paso_solo_claves(ll, acc, pend) ==
    LET actual == pend[Len(pend)]
        resto  == SubSeq(pend, 1, Len(pend) - 1)
    IN  IF actual \in acc \/ ~Contiene(ll, actual)
        THEN [accesibles |-> acc, pendientes |-> resto]
        ELSE [accesibles |-> acc \cup {actual},
              pendientes |-> resto \o Get(ll, actual)]

\* lines 241-245: one iteration of the while loop
accesibles_paso(ll, acc, pend) ==
    LET actual == pend[Len(pend)]
        resto  == SubSeq(pend, 1, Len(pend) - 1)
    IN  IF actual \in acc
        THEN [accesibles |-> acc, pendientes |-> resto]
        ELSE [accesibles |-> acc \cup {actual},
              pendientes |-> resto \o Get(ll, actual)]

InitAccesibles ==
    /\ pc = "acc_inicio"
    /\ llamadas \in Grafos
    /\ parrafo_inicio \in Inicios
    /\ selects_por_parrafo = DictVacio
    /\ resultado = {}
    /\ excepcion = ""
    /\ salida = <<>>
    /\ SinAccesibles /\ SinArbol /\ SinScan

\* lines 236-237
AccesiblesInicio ==
    /\ pc = "acc_inicio"
    /\ accesibles' = {}
    /\ pendientes' = <<InicioOSentinela(parrafo_inicio)>>
    /\ pc' = "acc_while"
    /\ UNCHANGED <<llamadas, parrafo_inicio, selects_por_parrafo, resultado,
                   excepcion, salida, arbolVars, scanVars>>

\* lines 240-245
AccesiblesPaso ==
    /\ pc = "acc_while"
    /\ pendientes # <<>>
    /\ LET r == accesibles_paso(llamadas, accesibles, pendientes)
       IN  accesibles' = r.accesibles /\ pendientes' = r.pendientes
    /\ UNCHANGED <<pc, llamadas, parrafo_inicio, selects_por_parrafo, resultado,
                   excepcion, salida, arbolVars, scanVars>>

\* line 246
AccesiblesReturn ==
    /\ pc = "acc_while"
    /\ pendientes = <<>>
    /\ resultado' = accesibles
    /\ pc' = "acc_fin"
    /\ UNCHANGED <<llamadas, parrafo_inicio, selects_por_parrafo, excepcion,
                   salida, accVars, arbolVars, scanVars>>

NextAccesibles == AccesiblesInicio \/ AccesiblesPaso \/ AccesiblesReturn

SpecAccesibles == InitAccesibles /\ [][NextAccesibles]_vars

\* the function is sequential code: it keeps running until it returns
FairSpecAccesibles == SpecAccesibles /\ WF_vars(NextAccesibles)

\* C3: on every finite graph (cycles, self-loops and duplicate edges
\* included) and every start name the traversal returns, and what it
\* returns is exactly the set of nodes reachable from the start name (the
\* sentinel __START__ when the start name is empty) by zero or more edges, a
\* set that does not depend on the order of the destination lists.
C3_Accesibles ==
    /\ <>(pc = "acc_fin")
    /\ [](pc = "acc_fin" =>
            resultado = Alcanzables(llamadas, InicioOSentinela(parrafo_inicio)))

C3_Witness ==
    /\ pc = "acc_fin"
    /\ parrafo_inicio = ""
    /\ Cardinality(resultado) = 3
    /\ \E i \in DOMAIN llamadas :
          \E j \in DOMAIN llamadas[i].v : llamadas[i].v[j] = llamadas[i].k

(***************************************************************************)
(* imprimir_arbol_llamadas (lines 351-393).  diccionario is the variable   *)
(* llamadas.  The recursion is a stack of frames [nodo, nivel, visitados,  *)
(* i], i being the position of the for loop of line 391 in                 *)
(* diccionario.get(nodo, []).  A printed line is [indent, tipo, texto]:    *)
(* indent counts the three-space units before the text.                    *)
(***************************************************************************)
MensajeVacio == [indent |-> 0, tipo |-> "vacio",
                 texto |-> "Diccionario vacio. No hay llamadas que mostrar."]

\* the two calls of the main program: to the console with no file (line 552)
\* and, from guardar_arbol_llamadas, with a file (line 409)
EntradasArbol ==
    {[selects |-> DictVacio, abierto |-> FALSE],
     [selects |-> DictVacio, abierto |-> TRUE],
     [selects |-> <<[k |-> "PAR-A", v |-> <<"SELECT ... CUSTOMERS", "COMMIT ... ">>]>>,
      abierto |-> TRUE]}

\* lines 385-388: the annotation lines of nodo
RECURSIVE arbol_lineas_sql(_, _)
arbol_lineas_sql(sels, nivel) ==
    IF sels = <<>> THEN <<>>
    ELSE <<[indent |-> nivel + 1, tipo |-> "sql", texto |-> Head(sels)]>>
         \o arbol_lineas_sql(Tail(sels), nivel)

\* lines 375-388: what a call prints on entry
arbol_lineas(selects, n, nivel) ==
    <<[indent |-> nivel, tipo |-> "nodo", texto |-> n]>>
    \o (IF Contiene(selects, n)
        THEN arbol_lineas_sql(Valor(selects, n), nivel)
        ELSE <<>>)

\* lines 372-381: the frame of a call after its entry
arbol_marco(n, nivel, visitados) ==
    [nodo |-> n, nivel |-> nivel, visitados |-> visitados \cup {n}, i |-> 1]

\* lines 379, 388: print(linea), and archivo.write when a file was given
arbol_escribir(arch, lineas) ==
    IF arch.abierto THEN [arch EXCEPT !.lineas = @ \o lineas] ELSE arch

\* faulty variant: the visited set is shared with the callee instead of copied
visitados_compartidos(del_llamador, del_llamado) == del_llamador \cup del_llamado

\* line 393 hands the callee visitados.copy(): what the callee adds stays in
\* its copy, and the caller's set after the call is what it was
visitados_tras_llamada(del_llamador, del_llamado) == del_llamador

\* faulty variant: line 392 does not look at visitados
arbol_hijo_pendiente_sin_visitados(visitados, hijo) == TRUE

\* line 392
arbol_hijo_pendiente(visitados, hijo) == hijo \notin visitados

InitArbol ==
    /\ pc = "arbol_inicio"
    /\ llamadas \in Grafos
    /\ nodo \in Inicios
    /\ \E e \in EntradasArbol :
          /\ selects_por_parrafo = e.selects
          /\ archivo = [abierto |-> e.abierto, lineas |-> <<>>]
    /\ pila = <<>>
    /\ parrafo_inicio = ""
    /\ resultado = DictVacio
    /\ excepcion = ""
    /\ salida = <<>>
    /\ SinAccesibles /\ SinScan

arbolResto == <<llamadas, parrafo_inicio, nodo, selects_por_parrafo, resultado,
                excepcion, accVars, scanVars>>

\* line 367: salida ends in a line break and print adds its own, so the
\* console shows the message and then an empty line
LineaEnBlanco == [indent |-> 0, tipo |-> "vacio", texto |-> ""]

arbol_print_vacio == <<MensajeVacio, LineaEnBlanco>>

\* lines 363-370 with an empty diccionario: the message, and return; line 369
\* writes salida as it is, the message and one line break
ArbolVacio ==
    /\ pc = "arbol_inicio"
    /\ nodo = "" /\ llamadas = DictVacio
    /\ salida' = salida \o arbol_print_vacio
    /\ archivo' = arbol_escribir(archivo, <<MensajeVacio>>)
    /\ pc' = "arbol_fin"
    /\ UNCHANGED <<pila, arbolResto>>

\* lines 363-388 of the outermost call
ArbolRaiz ==
    /\ pc = "arbol_inicio"
    /\ ~(nodo = "" /\ llamadas = DictVacio)
    /\ LET raiz == IF nodo = "" THEN llamadas[1].k ELSE nodo
           lineas == arbol_lineas(selects_por_parrafo, raiz, 0)
       IN  /\ salida' = salida \o lineas
           /\ archivo' = arbol_escribir(archivo, lineas)
           /\ pila' = <<arbol_marco(raiz, 0, {})>>
    /\ pc' = "arbol_for"
    /\ UNCHANGED arbolResto

\* lines 391-393 with hijo not visited: the recursive call and its entry
ArbolLlamarHijo ==
    /\ pc = "arbol_for"
    /\ LET m == pila[Len(pila)]
           hijos == Get(llamadas, m.nodo)
       IN  /\ m.i <= Len(hijos)
           /\ arbol_hijo_pendiente(m.visitados, hijos[m.i])
           /\ LET lineas == arbol_lineas(selects_por_parrafo, hijos[m.i], m.nivel + 1)
              IN  /\ salida' = salida \o lineas
                  /\ archivo' = arbol_escribir(archivo, lineas)
                  /\ pila' = Append([pila EXCEPT ![Len(pila)].i = m.i + 1],
                                    arbol_marco(hijos[m.i], m.nivel + 1, m.visitados))
    /\ UNCHANGED <<pc, arbolResto>>

\* lines 391-392 with hijo already visited on this path
ArbolSaltarHijo ==
    /\ pc = "arbol_for"
    /\ LET m == pila[Len(pila)]
           hijos == Get(llamadas, m.nodo)
       IN  /\ m.i <= Len(hijos)
           /\ ~arbol_hijo_pendiente(m.visitados, hijos[m.i])
           /\ pila' = [pila EXCEPT ![Len(pila)].i = m.i + 1]
    /\ UNCHANGED <<pc, salida, archivo, arbolResto>>

\* the for loop of line 391 is exhausted: the call returns to its caller
ArbolRetornar ==
    /\ pc = "arbol_for"
    /\ LET m == pila[Len(pila)]
           n == Len(pila)
       IN  /\ m.i > Len(Get(llamadas, m.nodo))
           /\ pila' = IF n = 1 THEN <<>>
                      ELSE [SubSeq(pila, 1, n - 1) EXCEPT ![n - 1].visitados =
                               visitados_tras_llamada(pila[n - 1].visitados, m.visitados)]
           /\ pc' = IF n = 1 THEN "arbol_fin" ELSE "arbol_for"
    /\ UNCHANGED <<salida, archivo, arbolResto>>

NextArbol ==
    ArbolVacio \/ ArbolRaiz \/ ArbolLlamarHijo \/ ArbolSaltarHijo \/ ArbolRetornar

SpecArbol == InitArbol /\ [][NextArbol]_vars

\* the function is sequential code: it keeps running until it returns
FairSpecArbol == SpecArbol /\ WF_vars(NextArbol)

\* the root the outermost call prints
ArbolRaizDe(dicc, n) == IF n = "" THEN dicc[1].k ELSE n

\* the lines of salida that print the node n
LineasDeNodo(n) ==
    {i \in DOMAIN salida : salida[i].tipo = "nodo" /\ salida[i].texto = n}

\* the number of paths from desde to hasta that follow outgoing edges (each
\* entry of a destination list is an edge) and visit no node of vistos and no
\* node twice
RECURSIVE SumaCaminos(_, _, _, _, _)
NumCaminos(dicc, desde, hasta, vistos) ==
    (IF desde = hasta THEN 1 ELSE 0)
    + SumaCaminos(dicc, Get(dicc, desde), 1, hasta, vistos \cup {desde})
SumaCaminos(dicc, hijos, j, hasta, vistos) ==
    IF j > Len(hijos) THEN 0
    ELSE (IF hijos[j] \in vistos THEN 0
          ELSE NumCaminos(dicc, hijos[j], hasta, vistos))
         + SumaCaminos(dicc, hijos, j + 1, hasta, vistos)

\* C4: on every finite graph, cycles and self-loops included, and for every
\* root, the printer returns; until then the recursion is never deeper than
\* the number of nodes, and it has printed finitely many lines.
C4_ArbolTermina ==
    /\ <>(pc = "arbol_fin")
    /\ [](Len(pila) <= Cardinality(NodosDe(llamadas) \cup {nodo}))

C4_Witness ==
    /\ pc = "arbol_fin"
    /\ nodo = "PAR-A"
    /\ "PAR-A" \in {Get(llamadas, "PAR-B")[j] : j \in DOMAIN Get(llamadas, "PAR-B")}
    /\ "PAR-B" \in {Get(llamadas, "PAR-A")[j] : j \in DOMAIN Get(llamadas, "PAR-A")}
    /\ "PAR-A" \in {Get(llamadas, "PAR-A")[j] : j \in DOMAIN Get(llamadas, "PAR-A")}
    /\ Len(salida) >= 2

\* C5: the nodes of the calls in progress (the ancestor chain of the line
\* being printed) are pairwise different, and when the printer has returned
\* each node has been printed once for every repetition-free path that leads
\* from the root to it.
C5_VisitadosPorCamino ==
    /\ \A i, j \in DOMAIN pila : pila[i].nodo = pila[j].nodo => i = j
    /\ (pc = "arbol_fin" /\ llamadas # DictVacio) =>
          \A n \in Nodos \cup {"NOPE"} :
              Cardinality(LineasDeNodo(n))
                  = NumCaminos(llamadas, ArbolRaizDe(llamadas, nodo), n, {})

\* a node below the root twice, at two depths, through two different parents
C5_Witness ==
    /\ pc = "arbol_fin"
    /\ \E n \in Nodos :
          \E i, j \in LineasDeNodo(n) :
              /\ salida[i].indent = 1
              /\ salida[j].indent = 2
              /\ Cardinality(LineasDeNodo(n)) = 2

\* the pre-order listing of the subtree of n at depth nivel: the line of n,
\* its annotations in index order one unit deeper, then the subtrees of the
\* destinations of n in list order, the ones on the path from the root left
\* out
RECURSIVE PreOrden(_, _, _, _, _), PreOrdenHijos(_, _, _, _, _, _)
PreOrden(dicc, selects, n, nivel, camino) ==
    <<[indent |-> nivel, tipo |-> "nodo", texto |-> n]>>
    \o [j \in 1..Len(Get(selects, n)) |->
           [indent |-> nivel + 1, tipo |-> "sql", texto |-> Get(selects, n)[j]]]
    \o PreOrdenHijos(dicc, selects, Get(dicc, n), 1, nivel + 1, camino \cup {n})
PreOrdenHijos(dicc, selects, hijos, j, nivel, camino) ==
    IF j > Len(hijos) THEN <<>>
    ELSE (IF hijos[j] \in camino THEN <<>>
          ELSE PreOrden(dicc, selects, hijos[j], nivel, camino))
         \o PreOrdenHijos(dicc, selects, hijos, j + 1, nivel, camino)

\* what the console shows is the beginning of the pre-order listing of the
\* root, and all of it when the printer has returned
C21_PreOrden ==
    ~(nodo = "" /\ llamadas = DictVacio) =>
        LET esperado == PreOrden(llamadas, selects_por_parrafo,
                                 ArbolRaizDe(llamadas, nodo), 0, {})
        IN  /\ Len(salida) <= Len(esperado)
            /\ SubSeq(esperado, 1, Len(salida)) = salida
            /\ pc = "arbol_fin" => salida = esperado

\* the file, when one is given, holds the lines the console shows
C21_ArchivoIgualConsola == archivo.abierto => archivo.lineas = salida

\* with a diccionario that is not empty the file does hold the console's
\* lines; with an empty one the console has the empty line the file lacks
C21_ArchivoSalvoVacio ==
    archivo.abierto =>
        IF nodo = "" /\ llamadas = DictVacio
        THEN pc = "arbol_fin" =>
                salida = archivo.lineas \o <<LineaEnBlanco>>
        ELSE archivo.lineas = salida

\* C21: the lines come out in pre-order (a node at depth d with d units of
\* indentation, its annotations in index order one unit deeper, then the
\* subtrees of its destinations in list order at depth d+1), and the lines
\* written to the file are the lines printed to the console.
C21_Claim == C21_PreOrden /\ C21_ArchivoIgualConsola

\* a tree with annotations followed by a child, all of it in the file too
C21_ArbolEnArchivo ==
    /\ pc = "arbol_fin"
    /\ archivo.abierto
    /\ Len(salida) >= 5
    /\ salida[1].texto = "PAR-A"
    /\ salida[2].tipo = "sql" /\ salida[3].tipo = "sql"
    /\ salida[4].tipo = "nodo" /\ salida[4].indent = 1
    /\ \E i \in DOMAIN salida : salida[i].indent = 2

(***************************************************************************)
(* Source lines.  A line is [col7, palabras]: columns 1-6 are blank, col7   *)
(* is the character of column 7 (index 6), and palabras are the words of   *)
(* the code area (column 8 onward), separated by single spaces.  A word is *)
(* [b, p]: the text b, which holds no period, followed by a period when p. *)
(***************************************************************************)
W(b) == [b |-> b, p |-> FALSE]
WP(b) == [b |-> b, p |-> TRUE]
L(ws) == [col7 |-> " ", palabras |-> ws]

LineaComentario == [col7 |-> "*", palabras |-> <<W("PERFORM"), WP("PAR-X")>>]
LineaCabecera == L(<<W("PROCEDURE"), WP("DIVISION")>>)
LineaCabeceraSinPunto == L(<<W("PROCEDURE"), W("DIVISION")>>)
LineaUsing == L(<<W("USING"), WP("PARM")>>)
LineaParA == L(<<WP("PAR-A")>>)
LineaParB == L(<<W("par-b"), WP("section")>>)
LineaPerformB == L(<<W("PERFORM"), WP("PAR-B")>>)
LineaPerformA == L(<<W("PERFORM"), WP("PAR-A")>>)
LineaPerformUntil == L(<<W("PERFORM"), W("UNTIL"), WP("EOF")>>)
LineaParAPerformB == L(<<WP("PAR-A"), W("PERFORM"), WP("PAR-B")>>)
LineaExecSql == L(<<W("EXEC"), W("SQL")>>)
LineaSqlCompleta ==
    L(<<W("EXEC"), W("SQL"), W("SELECT"), W("A,"), W("B"), W("FROM"),
        W("CUSTOMERS"), WP("END-EXEC")>>)
LineaInsertSelect ==
    L(<<W("INSERT"), W("INTO"), W("T"), W("SELECT"), W("X"), W("FROM"), W("U")>>)
LineaEndExec == L(<<WP("END-EXEC")>>)

\* the lines a file is made of
Lineas ==
    {LineaComentario, LineaCabecera, LineaCabeceraSinPunto, LineaUsing,
     LineaParA, LineaParB, LineaPerformB, LineaPerformA, LineaPerformUntil,
     LineaParAPerformB, LineaExecSql, LineaSqlCompleta, LineaInsertSelect,
     LineaEndExec}

\* str.upper() of a word text, over the words of Lineas
Mayus(b) ==
    CASE b = "par-b" -> "PAR-B"
      [] b = "section" -> "SECTION"
      [] OTHER -> b

\* line 269: linea.upper()
upper(l) ==
    [col7 |-> l.col7,
     palabras |-> [i \in DOMAIN l.palabras |->
                     [b |-> Mayus(l.palabras[i].b), p |-> l.palabras[i].p]]]

\* w is exactly the text t
EsTexto(w, t) == w.b = t /\ ~w.p

\* the words a and b, in this order and next to each other, occur in l:
\* 'a b' in linea, where the word after a may go on (a period)
ContieneFrase(l, a, b) ==
    \E i \in 1..(Len(l.palabras) - 1) :
        EsTexto(l.palabras[i], a) /\ l.palabras[i + 1].b = b

\* 'x' in linea for a text x that is one word of Lineas
ContienePalabra(l, x) == \E i \in DOMAIN l.palabras : l.palabras[i].b = x

\* '.' in linea
ContienePunto(l) == \E i \in DOMAIN l.palabras : l.palabras[i].p

\* lines 106-117: a line read from a file is never the empty string
es_linea_ignorable(l) == l.col7 = "*"

\* the words that [A-Z0-9][A-Z0-9-]{0,60} does not match whole
NoIdentificadores == {"", "A,", "*"}

SentenciasIniciales == {"PERFORM", "IF", "ELSE", "EVALUATE", "MOVE", "SET"}

ParrafoExcluidos ==
    {"VARYING", "UNTIL", "WITH", "END-IF", "END-EXEC", "STOP", "STOP-RUN",
     "EXIT", "CONTINUE", "PERFORM", "EVALUATE", "IF", "ELSE", "MOVE", "SET"}

\* faulty variant: a line that holds PERFORM is no label line
detectar_parrafo_sin_perform(l) ==
    LET ws == l.palabras
    IN  IF \E i \in DOMAIN ws : ws[i].b = "PERFORM" THEN ""
        ELSE IF ws = <<>> \/ l.col7 = "*" THEN ""
        ELSE IF ws[1].b \in NoIdentificadores THEN ""
        ELSE IF \/ ws[1].p
                \/ Len(ws) >= 2 /\ (ws[2] = WP("") \/ ws[2].b = "SECTION")
             THEN IF ws[1].b \in ParrafoExcluidos THEN "" ELSE ws[1].b
             ELSE ""

\* lines 119-165, on an upper-cased line; "" is None
detectar_parrafo(l) ==
    LET ws == l.palabras
    IN  IF ws = <<>> \/ l.col7 = "*" THEN ""
        ELSE IF Len(ws) >= 2 /\ ~ws[1].p /\ ws[1].b \in SentenciasIniciales THEN ""
        ELSE IF ws[1].b \in NoIdentificadores THEN ""
        ELSE IF \/ ws[1].p
                \/ Len(ws) >= 2 /\ (ws[2] = WP("") \/ ws[2].b = "SECTION")
             THEN IF ws[1].b \in ParrafoExcluidos THEN "" ELSE ws[1].b
             ELSE ""

PerformExcluidos ==
    {"VARYING", "UNTIL", "WITH", "END-IF", "END-EXEC", "STOP RUN", "EXIT",
     "CONTINUE"}

\* lines 168-191; "" is None
detectar_perform(l) ==
    LET ws == l.palabras
        I == {i \in DOMAIN ws : EsTexto(ws[i], "PERFORM")}
    IN  IF ~ContienePalabra(l, "PERFORM") \/ I = {} THEN ""
        ELSE LET idx == CHOOSE i \in I : \A j \in I : i <= j
             IN  IF idx + 1 > Len(ws) THEN ""
                 ELSE IF ws[idx + 1].b \in PerformExcluidos THEN ""
                 ELSE ws[idx + 1].b

(***************************************************************************)
(* extraer_sentencias_sql (lines 25-76) on the words of a block.  A        *)
(* statement is [tipo, tabla].                                             *)
(***************************************************************************)
\* the text (\w+) captures at the start of a word, over the words of Lineas
PrefijoW(w) ==
    CASE w.b \in {"PAR-A", "PAR-B", "PAR-X"} -> "PAR"
      [] w.b = "END-EXEC" -> "END"
      [] w.b = "A," -> "A"
      [] w.b = "*" -> ""
      [] OTHER -> w.b

\* re.finditer(clave\s+(\w+)), from word i on
RECURSIVE sql_clave(_, _, _, _)
sql_clave(ws, i, clave, tipo) ==
    IF i + 1 > Len(ws) THEN <<>>
    ELSE IF EsTexto(ws[i], clave) /\ PrefijoW(ws[i + 1]) # ""
         THEN <<[tipo |-> tipo, tabla |-> PrefijoW(ws[i + 1])]>>
              \o sql_clave(ws, i + 2, clave, tipo)
         ELSE sql_clave(ws, i + 1, clave, tipo)

\* re.finditer(clave1\s+clave2\s+(\w+)), from word i on
RECURSIVE sql_dos_claves(_, _, _, _, _)
sql_dos_claves(ws, i, clave1, clave2, tipo) ==
    IF i + 2 > Len(ws) THEN <<>>
    ELSE IF /\ EsTexto(ws[i], clave1) /\ EsTexto(ws[i + 1], clave2)
            /\ PrefijoW(ws[i + 2]) # ""
         THEN <<[tipo |-> tipo, tabla |-> PrefijoW(ws[i + 2])]>>
              \o sql_dos_claves(ws, i + 3, clave1, clave2, tipo)
         ELSE sql_dos_claves(ws, i + 1, clave1, clave2, tipo)

\* re.finditer("SELECT .*?FROM\s+(\w+)"), from word i on: the lazy .*? stops
\* at the first FROM that a word starting with \w follows
RECURSIVE sql_select(_, _)
sql_select(ws, i) ==
    IF i + 2 > Len(ws) THEN <<>>
    ELSE LET J == {j \in (i + 1)..(Len(ws) - 1) :
                      EsTexto(ws[j], "FROM") /\ PrefijoW(ws[j + 1]) # ""}
         IN  IF EsTexto(ws[i], "SELECT") /\ J # {}
             THEN LET j == CHOOSE x \in J : \A y \in J : x <= y
                  IN  <<[tipo |-> "SELECT", tabla |-> PrefijoW(ws[j + 1])]>>
                      \o sql_select(ws, j + 2)
             ELSE sql_select(ws, i + 1)

\* lines 69, 73: 'COMMIT' in bloque_sql
sql_presente(ws, clave) ==
    IF \E i \in DOMAIN ws : ws[i].b = clave
    THEN <<[tipo |-> clave, tabla |-> ""]>> ELSE <<>>

\* faulty variant: the INSERT pass runs before the SELECT pass
extraer_sentencias_sql_insert_primero(ws) ==
    sql_dos_claves(ws, 1, "INSERT", "INTO", "INSERT")
    \o sql_select(ws, 1)
    \o sql_clave(ws, 1, "UPDATE", "UPDATE")
    \o sql_dos_claves(ws, 1, "DELETE", "FROM", "DELETE")
    \o sql_clave(ws, 1, "OPEN", "OPEN CURSOR")
    \o sql_clave(ws, 1, "CLOSE", "CLOSE CURSOR")
    \o sql_clave(ws, 1, "FETCH", "FETCH CURSOR")
    \o sql_presente(ws, "COMMIT")
    \o sql_presente(ws, "ROLLBACK")

extraer_sentencias_sql(ws) ==
    sql_select(ws, 1)
    \o sql_dos_claves(ws, 1, "INSERT", "INTO", "INSERT")
    \o sql_clave(ws, 1, "UPDATE", "UPDATE")
    \o sql_dos_claves(ws, 1, "DELETE", "FROM", "DELETE")
    \o sql_clave(ws, 1, "OPEN", "OPEN CURSOR")
    \o sql_clave(ws, 1, "CLOSE", "CLOSE CURSOR")
    \o sql_clave(ws, 1, "FETCH", "FETCH CURSOR")
    \o sql_presente(ws, "COMMIT")
    \o sql_presente(ws, "ROLLBACK")

\* line 94: linea.strip(), as words: the '*' of column 7 is its first word
strip(l) == (IF l.col7 = "*" THEN <<W("*")>> ELSE <<>>) \o l.palabras

\* line 99: ' '.join(bloque_sql).upper(), as words
RECURSIVE bloque_completo(_)
bloque_completo(bloque) ==
    IF bloque = <<>> THEN <<>>
    ELSE upper(L(Head(bloque))).palabras \o bloque_completo(Tail(bloque))

\* faulty variant: the statements are appended under the sentinel, whatever
\* the current paragraph
RECURSIVE sql_almacenar_en_sentinela(_, _, _)
sql_almacenar_en_sentinela(selects, parrafo, sentencias) ==
    IF sentencias = <<>> THEN selects
    ELSE sql_almacenar_en_sentinela(
             SetdefaultAppend(selects, "__START__", Head(sentencias)),
             parrafo, Tail(sentencias))

\* lines 102-104: the statements appended under parrafo
RECURSIVE sql_almacenar(_, _, _)
sql_almacenar(selects, parrafo, sentencias) ==
    IF sentencias = <<>> THEN selects
    ELSE sql_almacenar(SetdefaultAppend(selects, parrafo, Head(sentencias)),
                       parrafo, Tail(sentencias))

\* faulty variant: a block the file ends in is dropped
procesar_bloque_solo_terminado(selects, parrafo, bloque) ==
    IF \E i \in 1..Len(bloque_completo(bloque)) :
          bloque_completo(bloque)[i].b = "END-EXEC"
    THEN sql_almacenar(selects, parrafo,
                       extraer_sentencias_sql(bloque_completo(bloque)))
    ELSE selects

\* lines 98-104 of procesar_bloque_sql
procesar_bloque(selects, parrafo, bloque) ==
    sql_almacenar(selects, parrafo, extraer_sentencias_sql(bloque_completo(bloque)))

(***************************************************************************)
(* analizar_cobol (lines 248-349).  The file iterator delivers one line of *)
(* Lineas per read, or the end of the file; parrafo_inicio is not read     *)
(* before line 328 and is drawn there.  The value returned is              *)
(* [llamadas, bloques, selects].  bloque_sql, the local list of            *)
(* procesar_bloque_sql, is empty outside that function.                    *)
(***************************************************************************)
ResultadoVacio == [llamadas |-> DictVacio, bloques |-> 0, selects |-> DictVacio]

MensajeError == [texto |-> "Se ha producido un error al analizar el archivo COBOL:",
                 parrafo |-> ""]

\* start paragraphs offered to analizar_cobol
IniciosScan == {"__START__", "PAR-A", "PAR-B", "NOPE"}

InitScan ==
    /\ pc = "scan_abrir"
    /\ llamadas = DictVacio
    /\ selects_por_parrafo = DictVacio
    /\ en_procedure_division = FALSE
    /\ esperar_punto_despues_de_proc = "unset"
    /\ parrafo_actual = "__START__"
    /\ bloque_sql_count = 0
    /\ analizar_sql \in BOOLEAN
    /\ parrafo_inicio = ""
    /\ linea = LineaNinguna
    /\ bloque_sql = <<>>
    /\ leidas = 0
    /\ modulo = ""
    /\ resultado = ResultadoVacio
    /\ excepcion = ""
    /\ salida = <<>>
    /\ SinAccesibles /\ SinArbol

scanResto == <<parrafo_inicio, resultado, excepcion, salida, accVars,
               arbolVars, analizar_sql, modulo>>

\* line 267: open() succeeds
ScanAbrir ==
    /\ pc = "scan_abrir"
    /\ pc' = "scan_for"
    /\ UNCHANGED <<llamadas, selects_por_parrafo, linea, bloque_sql,
                   en_procedure_division, esperar_punto_despues_de_proc,
                   parrafo_actual, bloque_sql_count, leidas, scanResto>>

\* line 267 raises (no file, unreadable): lines 344-347
ScanAbrirError ==
    /\ pc = "scan_abrir"
    /\ salida' = Append(salida, MensajeError)
    /\ resultado' = ResultadoVacio
    /\ pc' = "scan_fin"
    /\ UNCHANGED <<llamadas, selects_por_parrafo, linea, bloque_sql,
                   en_procedure_division, esperar_punto_despues_de_proc,
                   parrafo_actual, bloque_sql_count, leidas, parrafo_inicio,
                   excepcion, accVars, arbolVars, analizar_sql, modulo>>

\* line 275
EsInicioSql(l) == analizar_sql /\ ContieneFrase(l, "EXEC", "SQL")

\* lines 291-309 let the line through to the detectors
EnCuerpo == en_procedure_division /\ esperar_punto_despues_de_proc # "True"

\* the main loop reads the line l: lines 268-269
Leer(l) ==
    /\ pc = "scan_for"
    /\ leidas < MaxLineas
    /\ linea' = upper(l)
    /\ leidas' = leidas + 1

\* lines 271-272
ScanIgnorable ==
    \E l \in Lineas :
        /\ Leer(l)
        /\ es_linea_ignorable(upper(l))
        /\ UNCHANGED <<pc, llamadas, selects_por_parrafo, bloque_sql,
                       en_procedure_division, esperar_punto_despues_de_proc,
                       parrafo_actual, bloque_sql_count, scanResto>>

\* lines 275-277 and 90: the call of procesar_bloque_sql
ScanExecSql ==
    \E l \in Lineas :
        /\ Leer(l)
        /\ ~es_linea_ignorable(upper(l))
        /\ EsInicioSql(upper(l))
        /\ bloque_sql_count' = bloque_sql_count + 1
        /\ bloque_sql' = <<>>
        /\ pc' = "sql_for"
        /\ UNCHANGED <<llamadas, selects_por_parrafo, en_procedure_division,
                       esperar_punto_despues_de_proc, parrafo_actual, scanResto>>

\* lines 291-299: the PROCEDURE DIVISION header
ScanCabecera ==
    \E l \in Lineas :
        /\ Leer(l)
        /\ ~es_linea_ignorable(upper(l))
        /\ ~EsInicioSql(upper(l))
        /\ ~en_procedure_division
        /\ ContieneFrase(upper(l), "PROCEDURE", "DIVISION")
        /\ en_procedure_division' = TRUE
        /\ esperar_punto_despues_de_proc' =
              IF ContienePunto(upper(l)) THEN "False" ELSE "True"
        /\ UNCHANGED <<pc, llamadas, selects_por_parrafo, bloque_sql,
                       parrafo_actual, bloque_sql_count, scanResto>>

\* lines 291, 300-302: a line before the header
ScanAntesDeCabecera ==
    \E l \in Lineas :
        /\ Leer(l)
        /\ ~es_linea_ignorable(upper(l))
        /\ ~EsInicioSql(upper(l))
        /\ ~en_procedure_division
        /\ ~ContieneFrase(upper(l), "PROCEDURE", "DIVISION")
        /\ UNCHANGED <<pc, llamadas, selects_por_parrafo, bloque_sql,
                       en_procedure_division, esperar_punto_despues_de_proc,
                       parrafo_actual, bloque_sql_count, scanResto>>

\* lines 305-309: waiting for the period that ends the header
ScanEsperarPunto ==
    \E l \in Lineas :
        /\ Leer(l)
        /\ ~es_linea_ignorable(upper(l))
        /\ ~EsInicioSql(upper(l))
        /\ en_procedure_division
        /\ esperar_punto_despues_de_proc = "True"
        /\ esperar_punto_despues_de_proc' =
              IF ContienePunto(upper(l)) THEN "False" ELSE "True"
        /\ UNCHANGED <<pc, llamadas, selects_por_parrafo, bloque_sql,
                       en_procedure_division, parrafo_actual,
                       bloque_sql_count, scanResto>>

\* faulty variant: line 316 runs without the test of line 315
registrar_parrafo_sin_prueba(ll, parrafo) == Asignar(ll, parrafo, <<>>)

\* lines 315-316
registrar_parrafo(ll, parrafo) ==
    IF ~Contiene(ll, parrafo) THEN Asignar(ll, parrafo, <<>>) ELSE ll

\* lines 312-318: a paragraph label
ScanParrafo ==
    \E l \in Lineas :
        /\ Leer(l)
        /\ ~es_linea_ignorable(upper(l))
        /\ ~EsInicioSql(upper(l))
        /\ EnCuerpo
        /\ detectar_parrafo(upper(l)) # ""
        /\ parrafo_actual' = detectar_parrafo(upper(l))
        /\ llamadas' = registrar_parrafo(llamadas, detectar_parrafo(upper(l)))
        /\ UNCHANGED <<pc, selects_por_parrafo, bloque_sql,
                       en_procedure_division, esperar_punto_despues_de_proc,
                       bloque_sql_count, scanResto>>

\* faulty variant: the edge goes to the front of the list
registrar_perform_al_frente(ll, parrafo, destino) ==
    Asignar(ll, parrafo, <<destino>> \o Get(ll, parrafo))

\* faulty variant: the edge is recorded only under a paragraph that is already a key
registrar_perform_solo_existente(ll, parrafo, destino) ==
    IF Contiene(ll, parrafo)
    THEN Asignar(ll, parrafo, Append(Valor(ll, parrafo), destino))
    ELSE ll

\* line 324
registrar_perform(ll, parrafo, destino) == SetdefaultAppend(ll, parrafo, destino)

\* lines 321-325 with a target
ScanPerform ==
    \E l \in Lineas :
        /\ Leer(l)
        /\ ~es_linea_ignorable(upper(l))
        /\ ~EsInicioSql(upper(l))
        /\ EnCuerpo
        /\ detectar_parrafo(upper(l)) = ""
        /\ parrafo_actual # ""
        /\ detectar_perform(upper(l)) # ""
        /\ llamadas' = registrar_perform(llamadas, parrafo_actual,
                                         detectar_perform(upper(l)))
        /\ UNCHANGED <<pc, selects_por_parrafo, bloque_sql,
                       en_procedure_division, esperar_punto_despues_de_proc,
                       parrafo_actual, bloque_sql_count, scanResto>>

\* lines 321-323 without a target
ScanOtraLinea ==
    \E l \in Lineas :
        /\ Leer(l)
        /\ ~es_linea_ignorable(upper(l))
        /\ ~EsInicioSql(upper(l))
        /\ EnCuerpo
        /\ detectar_parrafo(upper(l)) = ""
        /\ detectar_perform(upper(l)) = ""
        /\ UNCHANGED <<pc, llamadas, selects_por_parrafo, bloque_sql,
                       en_procedure_division, esperar_punto_despues_de_proc,
                       parrafo_actual, bloque_sql_count, scanResto>>

\* line 268: the file has no more lines
ScanFinArchivo ==
    /\ pc \in {"scan_for", "scan_eof"}
    /\ pc' = "scan_filtrar"
    /\ UNCHANGED <<llamadas, selects_por_parrafo, linea, bloque_sql,
                   en_procedure_division, esperar_punto_despues_de_proc,
                   parrafo_actual, bloque_sql_count, leidas, scanResto>>

\* procesar_bloque_sql, lines 93-94: a line without END-EXEC
SqlLeer ==
    \E l \in Lineas :
        /\ pc = "sql_for"
        /\ leidas < MaxLineas
        /\ Len(bloque_sql) < MaxBloque
        /\ ~ContienePalabra(upper(l), "END-EXEC")
        /\ leidas' = leidas + 1
        /\ bloque_sql' = Append(bloque_sql, strip(l))
        /\ UNCHANGED <<pc, llamadas, selects_por_parrafo, linea,
                       en_procedure_division, esperar_punto_despues_de_proc,
                       parrafo_actual, bloque_sql_count, scanResto>>

\* procesar_bloque_sql, lines 93-104: the line with END-EXEC ends the block
SqlLeerEndExec ==
    \E l \in Lineas :
        /\ pc = "sql_for"
        /\ leidas < MaxLineas
        /\ ContienePalabra(upper(l), "END-EXEC")
        /\ leidas' = leidas + 1
        /\ bloque_sql' = <<>>
        /\ selects_por_parrafo' =
              procesar_bloque(selects_por_parrafo, parrafo_actual,
                              Append(bloque_sql, strip(l)))
        /\ pc' = "scan_for"
        /\ UNCHANGED <<llamadas, linea, en_procedure_division,
                       esperar_punto_despues_de_proc, parrafo_actual,
                       bloque_sql_count, scanResto>>

\* procesar_bloque_sql, lines 93, 98-104: the file ends inside the block
SqlFinArchivo ==
    /\ pc = "sql_for"
    /\ selects_por_parrafo' =
          procesar_bloque(selects_por_parrafo, parrafo_actual, bloque_sql)
    /\ pc' = "scan_eof"
    /\ bloque_sql' = <<>>
    /\ UNCHANGED <<llamadas, linea, en_procedure_division,
                   esperar_punto_despues_de_proc, parrafo_actual,
                   bloque_sql_count, leidas, scanResto>>

\* faulty variant: the SQL index is returned unfiltered
filtrar_selects_todos(selects, acc) == selects

\* line 340
filtrar_selects(selects, acc) ==
    SelectSeq(selects, LAMBDA e : Contiene(acc, e.k) \/ e.k = "__START__")

\* lines 339-342
selects_finales(selects, acc) ==
    IF analizar_sql THEN filtrar_selects(selects, acc) ELSE DictVacio

finResto == <<linea, bloque_sql, en_procedure_division,
              esperar_punto_despues_de_proc, parrafo_actual, bloque_sql_count,
              leidas, excepcion, accVars, arbolVars, analizar_sql, modulo>>

\* lines 328-349 without a start paragraph
ScanRetornar ==
    /\ pc = "scan_filtrar"
    /\ parrafo_inicio' = ""
    /\ selects_por_parrafo' = selects_finales(selects_por_parrafo, llamadas)
    /\ resultado' = [llamadas |-> llamadas, bloques |-> bloque_sql_count,
                     selects |-> selects_finales(selects_por_parrafo, llamadas)]
    /\ pc' = "scan_fin"
    /\ UNCHANGED <<llamadas, salida, finResto>>

\* lines 328-349 with a start paragraph, the filter returning
ScanFiltrarRetornar ==
    \E p \in IniciosScan :
        LET r == filtrar_desde_parrafo_inicio(llamadas, p)
        IN  /\ pc = "scan_filtrar"
            /\ r.excepcion = ""
            /\ parrafo_inicio' = p
            /\ llamadas' = r.resultado
            /\ salida' = salida \o r.salida
            /\ selects_por_parrafo' = selects_finales(selects_por_parrafo, r.resultado)
            /\ resultado' = [llamadas |-> r.resultado, bloques |-> bloque_sql_count,
                             selects |-> selects_finales(selects_por_parrafo, r.resultado)]
            /\ pc' = "scan_fin"
            /\ UNCHANGED finResto

\* lines 328-329 with the filter raising: lines 344-347
ScanFiltrarError ==
    \E p \in IniciosScan :
        LET r == filtrar_desde_parrafo_inicio(llamadas, p)
        IN  /\ pc = "scan_filtrar"
            /\ r.excepcion # ""
            /\ parrafo_inicio' = p
            /\ llamadas' = r.llamadas
            /\ salida' = Append(salida \o r.salida, MensajeError)
            /\ resultado' = ResultadoVacio
            /\ pc' = "scan_fin"
            /\ UNCHANGED <<selects_por_parrafo, finResto>>

NextScan ==
    \/ ScanAbrir \/ ScanAbrirError
    \/ ScanIgnorable \/ ScanExecSql \/ ScanCabecera \/ ScanAntesDeCabecera
    \/ ScanEsperarPunto \/ ScanParrafo \/ ScanPerform \/ ScanOtraLinea
    \/ ScanFinArchivo
    \/ SqlLeer \/ SqlLeerEndExec \/ SqlFinArchivo
    \/ ScanRetornar \/ ScanFiltrarRetornar \/ ScanFiltrarError

SpecScan == InitScan /\ [][NextScan]_vars

(***************************************************************************)
(* The steps of the scan, as the properties below name them.               *)
(***************************************************************************)
\* the step is taken while the file is being scanned (before line 327)
EnScan == pc \in {"scan_abrir", "scan_for", "sql_for", "scan_eof"}

\* the main loop reads a line, which is linea'
PasoLectura == pc = "scan_for" /\ leidas' = leidas + 1

\* the line read is a body line that reaches the detectors of lines 311-325
PasoDetectores ==
    /\ PasoLectura
    /\ ~es_linea_ignorable(linea')
    /\ ~EsInicioSql(linea')
    /\ EnCuerpo

\* the paragraph detector returns a label for the line read
PasoParrafo == PasoDetectores /\ detectar_parrafo(linea') # ""

\* the line read is no label line and the PERFORM detector accepts a target
PasoPerform ==
    /\ PasoDetectores
    /\ detectar_parrafo(linea') = ""
    /\ detectar_perform(linea') # ""

EsPrefijo(a, b) == Len(a) <= Len(b) /\ SubSeq(b, 1, Len(a)) = a

\* the scan returned what it built, without a start paragraph and without
\* an error
RetornoSinFiltro == pc = "scan_fin" /\ parrafo_inicio = "" /\ salida = <<>>

\* C6: during the scan no key of the call graph occurs twice; a detected
\* label is a key from then on; a key stays a key and its list is never
\* reset; a step creates no key other than the current paragraph, so a
\* PERFORM target does not become a key by being named; and the unfiltered
\* scan returns that graph.
C6_ParrafoUnaVez ==
    [][/\ EnScan =>
            /\ ClavesUnicas(llamadas')
            /\ \A k \in Claves(llamadas) :
                  /\ Contiene(llamadas', k)
                  /\ EsPrefijo(Valor(llamadas, k), Valor(llamadas', k))
            /\ Claves(llamadas') \subseteq Claves(llamadas) \cup {parrafo_actual'}
            /\ PasoParrafo =>
                  /\ Contiene(llamadas', detectar_parrafo(linea'))
                  /\ Contiene(llamadas, detectar_parrafo(linea')) => llamadas' = llamadas
            /\ PasoPerform =>
                  (detectar_perform(linea') # parrafo_actual
                      => (Contiene(llamadas', detectar_perform(linea'))
                            <=> Contiene(llamadas, detectar_perform(linea'))))
       /\ (pc = "scan_filtrar" /\ parrafo_inicio' = "" /\ pc' = "scan_fin")
            => resultado'.llamadas = llamadas]_vars

\* the label PAR-A is detected again after an edge was recorded under it,
\* to PAR-B, which is no key
C6_Witness ==
    /\ pc = "scan_for"
    /\ linea \in {upper(LineaParA), upper(LineaParAPerformB)}
    /\ parrafo_actual = "PAR-A"
    /\ Get(llamadas, "PAR-A") = <<"PAR-B", "PAR-B">>
    /\ ~Contiene(llamadas, "PAR-B")

\* C7 as claimed: with SQL analysis on, a line of paragraph PAR-A that holds
\* both EXEC SQL and END-EXEC adds exactly its own statements to the SQL
\* index under PAR-A, and the scan goes on with the next line as an ordinary
\* line.
C7_Claim ==
    [][(/\ PasoLectura
        /\ analizar_sql
        /\ EnCuerpo
        /\ parrafo_actual = "PAR-A"
        /\ ContieneFrase(linea', "EXEC", "SQL")
        /\ ContienePalabra(linea', "END-EXEC"))
        => /\ pc' = "scan_for"
           /\ selects_por_parrafo' =
                 sql_almacenar(selects_por_parrafo, "PAR-A",
                               extraer_sentencias_sql(linea'.palabras))
           /\ Get(selects_por_parrafo', "PAR-A") =
                 Append(Get(selects_por_parrafo, "PAR-A"),
                        [tipo |-> "SELECT", tabla |-> "CUSTOMERS"])]_vars

\* C8 as claimed: after a scan with SQL analysis on, every key of the
\* returned SQL index is a key of the returned call graph.
C8_Claim ==
    (pc = "scan_fin" /\ analizar_sql)
        => Claves(resultado.selects) \subseteq Claves(resultado.llamadas)

\* C8 amended: after a scan with SQL analysis on, every key of the returned
\* SQL index is a key of the returned call graph or is the sentinel
\* __START__.
C8_SelectsEnGrafoOSentinela ==
    (pc = "scan_fin" /\ analizar_sql)
        => Claves(resultado.selects)
              \subseteq Claves(resultado.llamadas) \cup {"__START__"}

\* the SQL index is returned with the sentinel, which is no key of the
\* returned graph, while the annotations of PAR-B were dropped
C8_Witness ==
    /\ pc = "scan_fin"
    /\ analizar_sql
    /\ parrafo_inicio = "PAR-A"
    /\ Claves(resultado.llamadas) = {"PAR-A"}
    /\ Claves(resultado.selects) = {"__START__"}
    /\ Claves(selects_por_parrafo) = {"__START__"}

\* C9 as claimed, at the step that detects the first label: when the line
\* before it was a non-ignorable body line read after the header terminator
\* (in the body, with no period and no header of its own, so it was read in
\* the body too), the sentinel is a key.  After this step the current
\* paragraph is never __START__ again, so the sentinel is a key of the
\* returned graph only if it is one here.
C9_Claim ==
    [][(/\ PasoParrafo
        /\ parrafo_actual = "__START__"
        /\ linea # LineaNinguna
        /\ ~es_linea_ignorable(linea)
        /\ ~EsInicioSql(linea)
        /\ ~ContienePunto(linea)
        /\ ~ContieneFrase(linea, "PROCEDURE", "DIVISION"))
        => Contiene(llamadas', "__START__")]_vars

\* C9 amended: the current paragraph starts as __START__ and changes only
\* when a label is detected, to that label; the sentinel becomes a key of
\* the call graph exactly at a body line read under __START__ on which the
\* PERFORM detector accepts a target, and stays one; the unfiltered scan
\* returns that graph.
C9_SentinelaPorPerform ==
    /\ (pc = "scan_abrir" => parrafo_actual = "__START__")
    /\ [][/\ EnScan =>
               /\ parrafo_actual' # parrafo_actual =>
                     (PasoParrafo /\ parrafo_actual' = detectar_parrafo(linea'))
               /\ Contiene(llamadas', "__START__") <=>
                     \/ Contiene(llamadas, "__START__")
                     \/ PasoPerform /\ parrafo_actual = "__START__"
          /\ (pc = "scan_filtrar" /\ parrafo_inicio' = "" /\ pc' = "scan_fin")
               => resultado'.llamadas = llamadas]_vars

\* an unfiltered scan returned a graph whose first key is the sentinel, made
\* by a PERFORM before the first label, PAR-A
C9_Witness ==
    /\ RetornoSinFiltro
    /\ Len(resultado.llamadas) = 2
    /\ resultado.llamadas[1] = [k |-> "__START__", v |-> <<"PAR-B">>]
    /\ resultado.llamadas[2].k = "PAR-A"

\* C10: a body line that is no label line and on which the PERFORM detector
\* accepts a target appends that target, once, to the end of the current
\* paragraph's list (making the paragraph a key if it is none) and leaves
\* every other list as it was; no other step of the scan changes a list; the
\* target need not be a key; the unfiltered scan returns that graph.
C10_PerformAlFinal ==
    [][/\ EnScan =>
            /\ PasoPerform =>
                  /\ Get(llamadas', parrafo_actual) =
                        Append(Get(llamadas, parrafo_actual), detectar_perform(linea'))
                  /\ \A k \in (Claves(llamadas) \cup Claves(llamadas')) \ {parrafo_actual} :
                        Get(llamadas', k) = Get(llamadas, k)
            /\ ~PasoPerform =>
                  \A k \in Claves(llamadas) \cup Claves(llamadas') :
                        Get(llamadas', k) = Get(llamadas, k)
       /\ (pc = "scan_filtrar" /\ parrafo_inicio' = "" /\ pc' = "scan_fin")
            => resultado'.llamadas = llamadas]_vars

\* PAR-A performed PAR-B, PAR-A and PAR-B again: three entries in source
\* order, the duplicate kept, PAR-B no key
C10_Witness ==
    /\ RetornoSinFiltro
    /\ Get(resultado.llamadas, "PAR-A") = <<"PAR-B", "PAR-A", "PAR-B">>
    /\ ~Contiene(resultado.llamadas, "PAR-B")
    /\ linea = upper(LineaPerformB)


\* C12 as claimed, the half about what is kept: when the scan ends with
\* SQL analysis on and a start paragraph that is a key of the scanned graph,
\* the returned SQL index has, for every paragraph reachable from the start
\* paragraph, the annotations the scan collected for it.
C12_Claim ==
    [][(/\ pc = "scan_filtrar"
        /\ pc' = "scan_fin"
        /\ analizar_sql
        /\ parrafo_inicio' # ""
        /\ Contiene(llamadas, parrafo_inicio'))
        => \A k \in Alcanzables(llamadas, parrafo_inicio') :
              Get(resultado'.selects, k) = Get(selects_por_parrafo, k)]_vars


\* C13 as claimed: when the scan has ended after reporting a diagnostic (the
\* file could not be opened, or the start paragraph is no key of the
\* scanned graph), no exception has escaped and what is returned is the
\* empty call graph together with the empty SQL index.
C13_Claim ==
    (pc = "scan_fin" /\ salida # <<>>)
        => /\ excepcion = ""
           /\ resultado.llamadas = DictVacio
           /\ resultado.selects = DictVacio


\* C14: a step of the block loop either consumes one more line of the file
\* or leaves the loop; when the file ends inside the block the loop is
\* left, the statements of the lines accumulated so far are appended under
\* the current paragraph, and the graph and the block count stay as they
\* are; the main loop then ends without reading or changing anything, and
\* the unfiltered return hands back the graph, the count and the SQL index
\* as built, with no diagnostic.
C14_BloqueSinFin ==
    [][/\ pc = "sql_for" =>
            \/ pc' = "sql_for" /\ leidas' = leidas + 1
            \/ pc' = "scan_for" /\ leidas' = leidas + 1
            \/ pc' = "scan_eof" /\ leidas' = leidas
       /\ (pc = "sql_for" /\ pc' = "scan_eof") =>
            /\ selects_por_parrafo' =
                  sql_almacenar(selects_por_parrafo, parrafo_actual,
                     extraer_sentencias_sql(bloque_completo(bloque_sql)))
            /\ UNCHANGED <<llamadas, bloque_sql_count, parrafo_actual, salida>>
       /\ pc = "scan_eof" =>
            /\ pc' = "scan_filtrar"
            /\ UNCHANGED <<llamadas, selects_por_parrafo, bloque_sql_count,
                           leidas, salida>>
       /\ (pc = "scan_filtrar" /\ analizar_sql /\ parrafo_inicio' = "") =>
            /\ pc' = "scan_fin"
            /\ salida' = salida
            /\ resultado' = [llamadas |-> llamadas,
                             bloques |-> bloque_sql_count,
                             selects |-> selects_por_parrafo]]_vars

\* the file ended inside the block of PAR-A, after a line with two
\* statements: both are recorded under PAR-A
C14_Witness ==
    /\ pc = "scan_eof"
    /\ parrafo_actual = "PAR-A"
    /\ bloque_sql_count = 1
    /\ Contiene(llamadas, "PAR-A")
    /\ Get(selects_por_parrafo, "PAR-A") =
          <<[tipo |-> "SELECT", tabla |-> "U"], [tipo |-> "INSERT", tabla |-> "T"]>>


\* what a step appended to the annotation list of paragraph k
Anotadas(k) ==
    SubSeq(Get(selects_por_parrafo', k), Len(Get(selects_por_parrafo, k)) + 1,
           Len(Get(selects_por_parrafo', k)))

\* the place of a kind in the order of the passes of lines 40-74
Rango(tipo) ==
    CASE tipo = "SELECT" -> 1
      [] tipo = "INSERT" -> 2
      [] tipo = "UPDATE" -> 3
      [] tipo = "DELETE" -> 4
      [] tipo = "OPEN CURSOR" -> 5
      [] tipo = "CLOSE CURSOR" -> 6
      [] tipo = "FETCH CURSOR" -> 7
      [] tipo = "COMMIT" -> 8
      [] tipo = "ROLLBACK" -> 9

\* C15 as claimed, on its own example: a block that is the one line
\* INSERT INTO T SELECT X FROM U adds INSERT ... T and then SELECT ... U to
\* the list of the current paragraph.
C15_Claim ==
    [][(/\ pc = "sql_for"
        /\ pc' = "scan_eof"
        /\ bloque_sql = <<LineaInsertSelect.palabras>>)
        => Anotadas(parrafo_actual) =
              <<[tipo |-> "INSERT", tabla |-> "T"],
                [tipo |-> "SELECT", tabla |-> "U"]>>]_vars

\* C15 amended: during the scan an annotation list only grows at its end,
\* and only the list of the current paragraph grows, when a block ends, so
\* blocks are in source order; what one block adds is ordered by kind in the
\* order of the passes (SELECT before INSERT and so on), and within a kind
\* in source order: the block INSERT INTO T SELECT X FROM U / EXEC SQL
\* SELECT A, B FROM CUSTOMERS END-EXEC adds SELECT U, SELECT CUSTOMERS,
\* INSERT T.
C15_OrdenPorTipo ==
    [][EnScan =>
          /\ \A k \in Claves(selects_por_parrafo) :
                /\ Contiene(selects_por_parrafo', k)
                /\ EsPrefijo(Get(selects_por_parrafo, k), Get(selects_por_parrafo', k))
          /\ \A k \in Claves(selects_por_parrafo') \ {parrafo_actual} :
                Get(selects_por_parrafo', k) = Get(selects_por_parrafo, k)
          /\ selects_por_parrafo' # selects_por_parrafo
                => pc = "sql_for" /\ pc' \in {"scan_for", "scan_eof"}
          /\ \A i, j \in 1..Len(Anotadas(parrafo_actual)) :
                i < j => Rango(Anotadas(parrafo_actual)[i].tipo)
                           <= Rango(Anotadas(parrafo_actual)[j].tipo)
          /\ (/\ pc = "sql_for"
              /\ pc' = "scan_for"
              /\ bloque_sql = <<LineaInsertSelect.palabras>>
              /\ leidas' = leidas + 1
              /\ Len(Anotadas(parrafo_actual)) = 3)
              => Anotadas(parrafo_actual) =
                    <<[tipo |-> "SELECT", tabla |-> "U"],
                      [tipo |-> "SELECT", tabla |-> "CUSTOMERS"],
                      [tipo |-> "INSERT", tabla |-> "T"]>>]_vars

\* PAR-A has the annotations of two blocks: SELECT CUSTOMERS of the first,
\* then SELECT U before INSERT T of the second
C15_Witness ==
    /\ pc \in {"scan_for", "scan_eof"}
    /\ bloque_sql_count = 2
    /\ Get(selects_por_parrafo, "PAR-A") =
          <<[tipo |-> "SELECT", tabla |-> "CUSTOMERS"],
            [tipo |-> "SELECT", tabla |-> "U"],
            [tipo |-> "INSERT", tabla |-> "T"]>>


\* the phase of the scan, from the two flags of lines 262 and 296-298
Fase ==
    IF ~en_procedure_division THEN "BEFORE_PROCEDURE_DIVISION"
    ELSE IF esperar_punto_despues_de_proc = "True"
         THEN "AWAITING_HEADER_TERMINATOR"
         ELSE "IN_BODY"

\* C18 as claimed: with SQL analysis on or off, a step of the scan taken
\* before the phase is IN_BODY leaves the call graph, the SQL index and the
\* current paragraph as they were.
C18_Claim ==
    [][(pc \in {"scan_for", "sql_for"} /\ Fase # "IN_BODY")
        => UNCHANGED <<llamadas, selects_por_parrafo, parrafo_actual>>]_vars

\* C19 as claimed: the phase is BEFORE_PROCEDURE_DIVISION at the start; a
\* non-ignorable line with PROCEDURE DIVISION read in that phase moves it to
\* IN_BODY when the line has a period and to AWAITING_HEADER_TERMINATOR
\* when it has none; in AWAITING_HEADER_TERMINATOR a non-ignorable line with
\* a period moves it to IN_BODY; the phase changes in no other way, so it
\* never moves back and a later header line changes nothing.
C19_Claim ==
    /\ (pc = "scan_abrir" => Fase = "BEFORE_PROCEDURE_DIVISION")
    /\ [][/\ (/\ PasoLectura
               /\ ~es_linea_ignorable(linea')
               /\ Fase = "BEFORE_PROCEDURE_DIVISION"
               /\ ContieneFrase(linea', "PROCEDURE", "DIVISION"))
               => Fase' = (IF ContienePunto(linea') THEN "IN_BODY"
                           ELSE "AWAITING_HEADER_TERMINATOR")
          /\ (/\ PasoLectura
               /\ ~es_linea_ignorable(linea')
               /\ Fase = "AWAITING_HEADER_TERMINATOR"
               /\ ContienePunto(linea'))
               => Fase' = "IN_BODY"
          /\ Fase' # Fase
               => \/ Fase = "BEFORE_PROCEDURE_DIVISION" /\ Fase' # "BEFORE_PROCEDURE_DIVISION"
                  \/ Fase = "AWAITING_HEADER_TERMINATOR" /\ Fase' = "IN_BODY"]_vars

\* C20: a body line on which the paragraph detector returns a label makes
\* that label the current paragraph and a key, and leaves every list as it
\* was (the list of a new key is empty); so does the line PAR-A. PERFORM
\* PAR-B., on which the PERFORM detector would accept PAR-B.
C20_SoloEtiqueta ==
    [][EnScan =>
          /\ PasoParrafo =>
                /\ parrafo_actual' = detectar_parrafo(linea')
                /\ Contiene(llamadas', detectar_parrafo(linea'))
                /\ \A k \in Claves(llamadas') : Get(llamadas', k) = Get(llamadas, k)
          /\ (PasoDetectores /\ linea' = upper(LineaParAPerformB)) =>
                /\ detectar_perform(linea') = "PAR-B"
                /\ parrafo_actual' = "PAR-A"
                /\ Contiene(llamadas', "PAR-A")
                /\ \A k \in Claves(llamadas') : Get(llamadas', k) = Get(llamadas, k)]_vars

\* the line PAR-A. PERFORM PAR-B. was read right after the header: PAR-A is
\* the current paragraph and a key, with no edge
C20_Witness ==
    /\ pc = "scan_for"
    /\ leidas = 2
    /\ Fase = "IN_BODY"
    /\ linea = upper(LineaParAPerformB)
    /\ parrafo_actual = "PAR-A"
    /\ llamadas = <<[k |-> "PAR-A", v |-> <<>>]>>


\* a step of an EXEC SQL block: the step that reads the EXEC SQL line and
\* calls procesar_bloque_sql, or a step inside the call
PasoBloque == (pc = "scan_for" /\ pc' = "sql_for") \/ pc = "sql_for"

\* the entries of the SQL index other than the one of parrafo are what they
\* were, and the one of parrafo has only grown at its end
SoloEntradaDe(parrafo) ==
    /\ \A k \in (Claves(selects_por_parrafo) \cup Claves(selects_por_parrafo'))
                  \ {parrafo} :
           /\ Contiene(selects_por_parrafo, k) <=> Contiene(selects_por_parrafo', k)
           /\ Get(selects_por_parrafo', k) = Get(selects_por_parrafo, k)
    /\ Contiene(selects_por_parrafo, parrafo) => Contiene(selects_por_parrafo', parrafo)
    /\ EsPrefijo(Get(selects_por_parrafo, parrafo), Get(selects_por_parrafo', parrafo))

\* C22: from the EXEC SQL line to the end of its block (the first line with
\* END-EXEC, or the end of the file) the call graph, the scan phase and the
\* current paragraph stay as they are, whatever the lines of the block look
\* like; of the SQL index only the entry of the paragraph current at the
\* EXEC SQL line changes, and it changes only when the block ends; the
\* block count rises by one at the EXEC SQL line and not inside the block.
C22_SoloIndiceSql ==
    [][PasoBloque =>
          /\ UNCHANGED <<llamadas, en_procedure_division,
                         esperar_punto_despues_de_proc, parrafo_actual>>
          /\ SoloEntradaDe(parrafo_actual)
          /\ pc' = "sql_for" => selects_por_parrafo' = selects_por_parrafo
          /\ bloque_sql_count' =
                bloque_sql_count + (IF pc = "scan_for" THEN 1 ELSE 0)]_vars

\* the block of PAR-A has consumed a label line and a PERFORM line: PAR-B is
\* no key of the graph, PAR-A has no edge and is still the current paragraph
C22_Witness ==
    /\ pc = "sql_for"
    /\ bloque_sql = <<strip(LineaParB), strip(LineaPerformB)>>
    /\ parrafo_actual = "PAR-A"
    /\ llamadas = <<[k |-> "PAR-A", v |-> <<>>]>>
    /\ en_procedure_division
    /\ bloque_sql_count = 1


(***************************************************************************)
(* The external-call analyzers: RoadMapCalls.py, RoadMapCalls.01.py and    *)
(* RoadMapCalls.03.py.  The first two have the same detectar_call,         *)
(* es_linea_ignorable and analizar_cobol.  RoadMapCalls.03.py does not     *)
(* compile: line 31 is indented one column deeper than line 30, which      *)
(* opens no block, so the interpreter raises IndentationError before any   *)
(* statement of the file runs.                                             *)
(* A word of a line is [b, forma]: a bare word b, a quoted literal 'b', or *)
(* PROGRAM('b').  The code area starts at column 12.                       *)
(***************************************************************************)
MaxLineasCalls == 4

Pal(b) == [b |-> b, forma |-> "palabra"]
Lit(b) == [b |-> b, forma |-> "literal"]
Prog(b) == [b |-> b, forma |-> "programa"]
LC(ws) == [col7 |-> " ", palabras |-> ws]

LlamadaLiteral == LC(<<Pal("call"), Lit("pgma")>>)
LlamadaVariable == LC(<<Pal("CALL"), Pal("WS-WORK-WS-WORK-PGMB")>>)
LlamadaPgmx == LC(<<Pal("CALL"), Lit("PGMX")>>)
LlamadaSinDestino == LC(<<Pal("PERFORM"), Pal("RECALL-A")>>)
CicsLink ==
    LC(<<Pal("EXEC"), Pal("CICS"), Pal("LINK"), Prog("PGMX"), Pal("END-EXEC")>>)
CicsXctl ==
    LC(<<Pal("EXEC"), Pal("CICS"), Pal("XCTL"), Prog("PGMX"), Pal("END-EXEC")>>)
ComentarioCall == [col7 |-> "*", palabras |-> <<Pal("CALL"), Lit("PGMA")>>]

LineasCalls ==
    {LlamadaLiteral, LlamadaVariable, LlamadaPgmx, LlamadaSinDestino,
     CicsLink, CicsXctl, ComentarioCall}

\* str.upper() of a word text, over the words of LineasCalls
MayusCalls(b) ==
    CASE b = "call" -> "CALL"
      [] b = "pgma" -> "PGMA"
      [] OTHER -> b

\* linea.upper()
upper_calls(l) ==
    [col7 |-> l.col7,
     palabras |-> [i \in DOMAIN l.palabras |->
                     [b |-> MayusCalls(l.palabras[i].b),
                      forma |-> l.palabras[i].forma]]]

\* what ['\"]?([\w-]+) captures at the start of a word
captura(w) == IF w.forma = "programa" THEN "PROGRAM" ELSE w.b

\* detectar_call of RoadMapCalls.py and RoadMapCalls.01.py; "" is None
detectar_call(l) ==
    LET ws == upper_calls(l).palabras
        I  == {i \in 1..(Len(ws) - 1) :
                  /\ ws[i] = Pal("CALL")
                  /\ captura(ws[i + 1]) # ""}
        J  == {i \in 1..(Len(ws) - 3) :
                  /\ ws[i] = Pal("EXEC")
                  /\ ws[i + 1] = Pal("CICS")
                  /\ ws[i + 2] \in {Pal("LINK"), Pal("START"), Pal("INVOKE")}
                  /\ ws[i + 3].forma = "programa"}
    IN  IF I # {}
        THEN captura(ws[(CHOOSE i \in I : \A j \in I : i <= j) + 1])
        ELSE IF J # {}
             THEN "CICS-" \o ws[(CHOOSE i \in J : \A j \in J : i <= j) + 3].b
             ELSE ""

\* es_linea_ignorable of RoadMapCalls.py and RoadMapCalls.01.py
es_linea_ignorable_calls(l) == l.palabras = <<>> \/ l.col7 = "*"

\* the origin: the upper-cased base name of the file analyzed
origen == "PROGRAMA"

MensajeErrorCalls == [texto |-> "Error al analizar el archivo:", parrafo |-> ""]

Modulos == {"RoadMapCalls.py", "RoadMapCalls.01.py", "RoadMapCalls.03.py"}

InitCalls ==
    /\ pc = "calls_cargar"
    /\ modulo \in Modulos
    /\ llamadas = DictVacio
    /\ parrafo_inicio = ""
    /\ selects_por_parrafo = DictVacio
    /\ resultado = DictVacio
    /\ excepcion = ""
    /\ salida = <<>>
    /\ analizar_sql = FALSE
    /\ linea = LineaNinguna
    /\ bloque_sql = <<>>
    /\ en_procedure_division = FALSE
    /\ esperar_punto_despues_de_proc = "unset"
    /\ parrafo_actual = "__START__"
    /\ bloque_sql_count = 0
    /\ leidas = 0
    /\ SinAccesibles /\ SinArbol

callsResto == <<parrafo_inicio, selects_por_parrafo, analizar_sql, bloque_sql,
                en_procedure_division, esperar_punto_despues_de_proc,
                parrafo_actual, bloque_sql_count, modulo, accVars, arbolVars>>

\* the interpreter compiles the file and runs it up to analizar_cobol
CallsCargar ==
    /\ pc = "calls_cargar"
    /\ modulo \in {"RoadMapCalls.py", "RoadMapCalls.01.py"}
    /\ pc' = "calls_abrir"
    /\ UNCHANGED <<llamadas, resultado, excepcion, salida, linea, leidas, callsResto>>

\* RoadMapCalls.03.py: the compilation fails at line 31
CallsCargarError ==
    /\ pc = "calls_cargar"
    /\ modulo = "RoadMapCalls.03.py"
    /\ excepcion' = "IndentationError"
    /\ pc' = "calls_fin"
    /\ UNCHANGED <<llamadas, resultado, salida, linea, leidas, callsResto>>

\* open() succeeds
CallsAbrir ==
    /\ pc = "calls_abrir"
    /\ pc' = "calls_for"
    /\ UNCHANGED <<llamadas, resultado, excepcion, salida, linea, leidas, callsResto>>

\* open() raises: the message is printed and the empty dict returned
CallsAbrirError ==
    /\ pc = "calls_abrir"
    /\ salida' = Append(salida, MensajeErrorCalls)
    /\ resultado' = llamadas
    /\ pc' = "calls_fin"
    /\ UNCHANGED <<llamadas, excepcion, linea, leidas, callsResto>>

\* the loop reads the line l and upper-cases it
LeerCalls(l) ==
    /\ pc = "calls_for"
    /\ leidas < MaxLineasCalls
    /\ leidas' = leidas + 1
    /\ linea' = upper_calls(l)

CallsIgnorable ==
    \E l \in LineasCalls :
        /\ LeerCalls(l)
        /\ es_linea_ignorable_calls(upper_calls(l))
        /\ UNCHANGED <<pc, llamadas, resultado, excepcion, salida, callsResto>>

\* llamadas[origen].append(destino.upper()) on the defaultdict
registrar_call(ll, destino) == SetdefaultAppend(ll, origen, destino)

CallsLlamada ==
    \E l \in LineasCalls :
        /\ LeerCalls(l)
        /\ ~es_linea_ignorable_calls(upper_calls(l))
        /\ detectar_call(upper_calls(l)) # ""
        /\ llamadas' = registrar_call(llamadas, detectar_call(upper_calls(l)))
        /\ UNCHANGED <<pc, resultado, excepcion, salida, callsResto>>

CallsOtraLinea ==
    \E l \in LineasCalls :
        /\ LeerCalls(l)
        /\ ~es_linea_ignorable_calls(upper_calls(l))
        /\ detectar_call(upper_calls(l)) = ""
        /\ UNCHANGED <<pc, llamadas, resultado, excepcion, salida, callsResto>>

\* the file has no more lines: return llamadas
CallsFinArchivo ==
    /\ pc = "calls_for"
    /\ resultado' = llamadas
    /\ pc' = "calls_fin"
    /\ UNCHANGED <<llamadas, excepcion, salida, linea, leidas, callsResto>>

NextCalls ==
    \/ CallsCargar \/ CallsCargarError \/ CallsAbrir \/ CallsAbrirError
    \/ CallsIgnorable \/ CallsLlamada \/ CallsOtraLinea \/ CallsFinArchivo

SpecCalls == InitCalls /\ [][NextCalls]_vars

\* what a step appended to the origin's list
Llamadas_nuevas ==
    SubSeq(Get(llamadas', origen), Len(Get(llamadas, origen)) + 1,
           Len(Get(llamadas', origen)))

\* C16 as claimed: each version of the external-call analyzer runs its
\* scan; a line EXEC CICS LINK PROGRAM('PGMX') END-EXEC read by the scan
\* appends CICS-PGMX to the origin's list, a line CALL 'PGMX' appends PGMX,
\* and the two names differ.
C16_Claim ==
    [][/\ pc = "calls_cargar" => (pc' = "calls_abrir" /\ excepcion' = "")
       /\ (pc = "calls_for" /\ leidas' = leidas + 1 /\ linea' = upper_calls(CicsLink))
            => Llamadas_nuevas = <<"CICS-PGMX">>
       /\ (pc = "calls_for" /\ leidas' = leidas + 1 /\ linea' = upper_calls(LlamadaPgmx))
            => Llamadas_nuevas = <<"PGMX">>
       /\ "CICS-PGMX" # "PGMX"]_vars

\* C17 as claimed: each version of the external-call analyzer runs its
\* scan; a line call 'pgma' appends PGMA; a line CALL WS-WORK-WS-WORK-PGMB
\* appends WS-WORK-WS-WORK-PGMB in the versions that return the identifier
\* as it is and PGMB, the program name part, in the version that splits it
\* at a hyphen.
C17_Claim ==
    [][/\ pc = "calls_cargar" => (pc' = "calls_abrir" /\ excepcion' = "")
       /\ (pc = "calls_for" /\ leidas' = leidas + 1 /\ linea' = upper_calls(LlamadaLiteral))
            => Llamadas_nuevas = <<"PGMA">>
       /\ (pc = "calls_for" /\ leidas' = leidas + 1 /\ linea' = upper_calls(LlamadaVariable))
            => Llamadas_nuevas =
                  (IF modulo = "RoadMapCalls.03.py" THEN <<"PGMB">>
                   ELSE <<"WS-WORK-WS-WORK-PGMB">>)]_vars

====
